---------------------------- MODULE Spec2Model ----------------------------
(***************************************************************************)
(* Request admission and threat-control gateway of src/api/app.py.         *)
(*                                                                         *)
(* The module-level dictionaries blocked_ips, violation_counts and         *)
(* request_log, and the in-memory storage of the rate limiter, are the     *)
(* state.  Python strings that the code inspects character by character    *)
(* (paths, header values, keys) are sequences of one-character strings.    *)
(* Time is time.time() in abstract units; it advances only by Tick.        *)
(*                                                                         *)
(* Numbers of the source that would make the state space intractable are   *)
(* scaled down; each such definition names the source's value.             *)
(***************************************************************************)
EXTENDS Integers, Sequences, FiniteSets, TLC

(***************************************************************************)
(* Scaled configuration (SecurityConfig, src/api/app.py:59-74, 133).       *)
(***************************************************************************)
\* SecurityConfig.BLOCK_THRESHOLD = 10 in the source.
BLOCK_THRESHOLD == 3
\* SecurityConfig.BLOCK_DURATION = 3600 (seconds) in the source.
BLOCK_DURATION == 2
\* The log bound of log_security_event, 10000 in the source.
LogCapacity == 1
\* "100 per hour": RATE_LIMIT_DEFAULT.
DefaultMax == 2
HourLen == 3
\* "10 per minute": RATE_LIMIT_CHAT, and the limit of security_stats.
ChatMax == 2
StatsMax == 2
\* "5 per minute": RATE_LIMIT_STRICT.
StrictMax == 1
MinuteLen == 2
\* SecurityConfig.MAX_MESSAGE_LENGTH = 10000 in the source.
MAX_MESSAGE_LENGTH == 4

(***************************************************************************)
(* Bounds of the exploration.                                              *)
(***************************************************************************)
MaxTime == 3
MaxViolations == 4
MaxHits == 3
MaxAppends == 3

\* Python's None where an integer is expected.
NoCount == -1

(***************************************************************************)
(* String helpers (str.lower, str.split(',')[0], str.strip).               *)
(***************************************************************************)
LowerChar(c) ==
  CASE c = "A" -> "a"
    [] c = "D" -> "d"
    [] c = "M" -> "m"
    [] c = "I" -> "i"
    [] c = "N" -> "n"
    [] c = "C" -> "c"
    [] c = "H" -> "h"
    [] c = "T" -> "t"
    [] OTHER -> c

Lower(s) == [i \in 1..Len(s) |-> LowerChar(s[i])]

\* s.split(',')[0]: the part of s before its first comma (all of s if none).
SplitFirst(s) ==
  IF \E i \in 1..Len(s) : s[i] = ","
  THEN LET k == CHOOSE i \in 1..Len(s) :
                  s[i] = "," /\ \A j \in 1..(i-1) : s[j] # ","
       IN SubSeq(s, 1, k - 1)
  ELSE s

IsSpace(c) == c = " "

\* s.strip(): leading and trailing whitespace removed.
Strip(s) ==
  IF \A i \in 1..Len(s) : IsSpace(s[i])
  THEN << >>
  ELSE LET lo == CHOOSE i \in 1..Len(s) :
                   ~IsSpace(s[i]) /\ \A j \in 1..(i-1) : IsSpace(s[j])
           hi == CHOOSE i \in 1..Len(s) :
                   ~IsSpace(s[i]) /\ \A j \in (i+1)..Len(s) : IsSpace(s[j])
       IN SubSeq(s, lo, hi)

\* dict helpers: a dict is a function whose DOMAIN is its key set.
Put(d, k, v) == [x \in (DOMAIN d) \cup {k} |-> IF x = k THEN v ELSE d[x]]
Del(d, k) == [x \in (DOMAIN d) \ {k} |-> d[x]]


\* Python's None where a string (a header value, an environment value) is expected.
None == <<"None">>

(***************************************************************************)
(* The in-memory state as one record, threaded through the functions:      *)
(*   blocked_ips      dict  identity -> blockedUntil       (line 88)       *)
(*   violation_counts defaultdict(int)                     (line 89)       *)
(*   request_log      list of entries                      (line 90)       *)
(*   storage          the limiter's memory:// storage      (line 180)      *)
(*   trace, logged    bookkeeping: the stages the current request has run   *)
(*                    and the kinds of the log entries it has appended     *)
(***************************************************************************)

\* log_security_event that drops the entry just appended when the log is full.
log_security_event_DropsNewest(w, t, event_type, ip, details, count) ==
  LET entry == [timestamp |-> t, event |-> event_type, ip |-> ip,
                details |-> details, violation_count |-> count]
      appended == Append(w.request_log, entry)
  IN [w EXCEPT !.request_log =
                 IF Len(appended) > LogCapacity THEN w.request_log ELSE appended,
               !.logged = Append(@, event_type)]

\* log_security_event (lines 121-137): append, then drop the oldest entry
\* when the log has grown past its bound.
log_security_event(w, t, event_type, ip, details, count) ==
  LET entry == [timestamp |-> t, event |-> event_type, ip |-> ip,
                details |-> details, violation_count |-> count]
      appended == Append(w.request_log, entry)
  IN [w EXCEPT !.request_log =
                 IF Len(appended) > LogCapacity THEN Tail(appended) ELSE appended,
               !.logged = Append(@, event_type)]

\* is_ip_blocked that forgets to clear the count of an elapsed block.
is_ip_blocked_KeepsCount(w, t, ip) ==
  IF ip \in DOMAIN w.blocked_ips
  THEN IF t < w.blocked_ips[ip]
       THEN [w |-> w, ret |-> TRUE]
       ELSE [w |-> [w EXCEPT !.blocked_ips = Del(@, ip)], ret |-> FALSE]
  ELSE [w |-> w, ret |-> FALSE]

\* is_ip_blocked that clears the count of every identity it finds unblocked.
is_ip_blocked_Forgives(w, t, ip) ==
  IF ip \in DOMAIN w.blocked_ips /\ t < w.blocked_ips[ip]
  THEN [w |-> w, ret |-> TRUE]
  ELSE [w |-> [w EXCEPT !.blocked_ips = [x \in (DOMAIN @) \ { ip } |-> @[x]],
                        !.violation_counts[ip] = 0],
        ret |-> FALSE]

\* is_ip_blocked (lines 100-108).
is_ip_blocked(w, t, ip) ==
  IF ip \in DOMAIN w.blocked_ips
  THEN IF t < w.blocked_ips[ip]
       THEN [w |-> w, ret |-> TRUE]
       ELSE [w |-> [w EXCEPT !.blocked_ips = Del(@, ip),
                             !.violation_counts[ip] = 0],
             ret |-> FALSE]
  ELSE [w |-> w, ret |-> FALSE]

\* record_violation that blocks one violation late (> for >=).
record_violation_Late(w, t, ip, reason) ==
  LET n  == w.violation_counts[ip] + 1
      w1 == [w EXCEPT !.violation_counts[ip] = n]
      w2 == log_security_event(w1, t, "VIOLATION", ip, reason, n)
  IN IF n > BLOCK_THRESHOLD
     THEN LET w3 == [w2 EXCEPT !.blocked_ips = Put(@, ip, t + BLOCK_DURATION)]
          IN [w |-> log_security_event(w3, t, "IP_BLOCKED", ip,
                                       <<"Blocked for", BLOCK_DURATION>>, n),
              ret |-> TRUE]
     ELSE [w |-> w2, ret |-> FALSE]

\* record_violation whose IP_BLOCKED entry carries the count before the
\* increment.
record_violation_OldCount(w, t, ip, reason) ==
  LET n  == w.violation_counts[ip] + 1
      w1 == [w EXCEPT !.violation_counts[ip] = n]
      w2 == log_security_event(w1, t, "VIOLATION", ip, reason, n)
  IN IF n >= BLOCK_THRESHOLD
     THEN LET w3 == [w2 EXCEPT !.blocked_ips = Put(@, ip, t + BLOCK_DURATION)]
          IN [w |-> log_security_event(w3, t, "IP_BLOCKED", ip,
                                       <<"Blocked for", BLOCK_DURATION>>, n - 1),
              ret |-> TRUE]
     ELSE [w |-> w2, ret |-> FALSE]

\* record_violation (lines 110-119).
record_violation(w, t, ip, reason) ==
  LET n  == w.violation_counts[ip] + 1
      w1 == [w EXCEPT !.violation_counts[ip] = n]
      w2 == log_security_event(w1, t, "VIOLATION", ip, reason, n)
  IN IF n >= BLOCK_THRESHOLD
     THEN LET w3 == [w2 EXCEPT !.blocked_ips = Put(@, ip, t + BLOCK_DURATION)]
          IN [w |-> log_security_event(w3, t, "IP_BLOCKED", ip,
                                       <<"Blocked for", BLOCK_DURATION>>, n),
              ret |-> TRUE]
     ELSE [w |-> w2, ret |-> FALSE]

\* The fixed sentinel of get_client_ip.
Sentinel == <<"0", ".", "0", ".", "0", ".", "0">>

\* get_client_ip (lines 92-98).  An absent X-Forwarded-For header reads as ''
\* (the .get default); remote_addr None or '' is the empty sequence here, both
\* being falsy in `request.remote_addr or '0.0.0.0'`.
get_client_ip(req) ==
  IF req.forwarded # << >>
  THEN Strip(SplitFirst(req.forwarded))
  ELSE IF req.remote_addr # << >> THEN req.remote_addr ELSE Sentinel

(***************************************************************************)
(* sanitize_input and constant_time_compare (lines 139-155).               *)
(***************************************************************************)
IsTagStart(c) == c \in {"b", "s", "/", "a", "i"}

\* bleach.clean(text, tags=[], strip=True): every tag is removed, its content
\* kept; a character that is markup but no tag is escaped.
RECURSIVE BleachClean(_)
BleachClean(s) ==
  IF s = << >> THEN << >>
  ELSE LET c == Head(s)
           r == Tail(s)
       IN IF c = "<"
          THEN IF r # << >> /\ IsTagStart(Head(r)) /\ \E i \in 1..Len(r) : r[i] = ">"
               THEN LET k == CHOOSE i \in 1..Len(r) :
                               r[i] = ">" /\ \A j \in 1..(i-1) : r[j] # ">"
                    IN BleachClean(SubSeq(r, k + 1, Len(r)))
               ELSE <<"&", "l", "t", ";">> \o BleachClean(r)
          ELSE IF c = ">"
          THEN <<"&", "g", "t", ";">> \o BleachClean(r)
          ELSE <<c>> \o BleachClean(r)

\* text[:max_length]
Truncate(s, n) == SubSeq(s, 1, IF Len(s) < n THEN Len(s) ELSE n)

\* sanitize_input(text, max_length).  A value is [isstr, text]: for a value
\* that is no str, text is what str(value) gives.  max_length 0 is falsy.
sanitize_input(v, max_length) ==
  IF ~v.isstr
  THEN v.text
  ELSE LET cleaned == BleachClean(v.text)
       IN IF max_length # 0 THEN Truncate(cleaned, max_length) ELSE cleaned

\* The one non-ASCII character of the alphabet.
NonAscii == "U+00E9"
IsAscii(s) == \A i \in 1..Len(s) : s[i] # NonAscii

\* constant_time_compare that finds no two values equal.
constant_time_compare_Never(a, b) ==
  IF IsAscii(a) /\ IsAscii(b)
  THEN [raised |-> FALSE, ret |-> FALSE]
  ELSE [raised |-> TRUE, ret |-> FALSE]

\* constant_time_compare: secrets.compare_digest(str(a), str(b)).  On str
\* arguments compare_digest raises TypeError unless both are ASCII.
constant_time_compare(a, b) ==
  IF IsAscii(a) /\ IsAscii(b)
  THEN [raised |-> FALSE, ret |-> a = b]
  ELSE [raised |-> TRUE, ret |-> FALSE]

(***************************************************************************)
(* Routing (the @app.route lines) and the rate limiter (lines 175-181).    *)
(***************************************************************************)
RootPath    == <<"/">>
HealthPath  == <<"/", "a", "p", "i", "/", "h", "e", "a", "l", "t", "h">>
ChatPath    == <<"/", "a", "p", "i", "/", "c", "h", "a", "t">>
BalancePath == <<"/", "a", "p", "i", "/", "b", "a", "s", "e", "/",
                 "b", "a", "l", "a", "n", "c", "e">>
StatsPath   == <<"/", "a", "p", "i", "/", "i", "n", "t", "e", "r", "n", "a", "l",
                 "/", "s", "e", "c", "u", "r", "i", "t", "y", "/",
                 "s", "t", "a", "t", "s">>

\* SecurityConfig.HONEYPOT_PATHS (lines 77-81).
HONEYPOT_PATHS ==
    { <<"/", "a", "d", "m", "i", "n">>,
      <<"/", "w", "p", "-", "a", "d", "m", "i", "n">>,
      <<"/", "p", "h", "p", "m", "y", "a", "d", "m", "i", "n">>,
      <<"/", ".", "e", "n", "v">>,
      <<"/", "c", "o", "n", "f", "i", "g">>,
      <<"/", "b", "a", "c", "k", "u", "p">>,
      <<"/", ".", "g", "i", "t">>,
      <<"/", "a", "p", "i", "/", "a", "d", "m", "i", "n">>,
      <<"/", "l", "o", "g", "i", "n">>,
      <<"/", "w", "p", "-", "l", "o", "g", "i", "n", ".", "p", "h", "p">>,
      <<"/", "a", "d", "m", "i", "n", "i", "s", "t", "r", "a", "t", "o", "r">> }

\* The URL map: rule, methods, endpoint (the view function's name).
url_map ==
    { [rule |-> RootPath,    methods |-> {"GET"},  endpoint |-> "root"],
      [rule |-> HealthPath,  methods |-> {"GET"},  endpoint |-> "health"],
      [rule |-> ChatPath,    methods |-> {"POST"}, endpoint |-> "chat"],
      [rule |-> BalancePath, methods |-> {"POST"}, endpoint |-> "base_balance"],
      [rule |-> StatsPath,   methods |-> {"GET"},  endpoint |-> "security_stats"] }

\* request.endpoint: the matched view, or the routing error ("404", "405")
\* that dispatch will raise.  Rules match the path exactly, case-sensitively.
MatchRoute(req) ==
  IF \E r \in url_map : r.rule = req.path
  THEN LET r == CHOOSE x \in url_map : x.rule = req.path
       IN IF req.method \in r.methods THEN r.endpoint ELSE "405"
  ELSE "404"

RATE_LIMIT_DEFAULT == [amount |-> DefaultMax, per |-> HourLen]
RATE_LIMIT_CHAT    == [amount |-> ChatMax,    per |-> MinuteLen]
RATE_LIMIT_STRICT  == [amount |-> StrictMax,  per |-> MinuteLen]
\* @limiter.limit("10 per minute") on security_stats (line 452).
RATE_LIMIT_STATS   == [amount |-> StatsMax,   per |-> MinuteLen]

\* The views that carry @limiter.limit, with their limit.
DecoratedViews == {"chat", "base_balance", "security_stats"}
DecoratedLimit(endpoint) ==
  CASE endpoint = "chat"           -> RATE_LIMIT_CHAT
    [] endpoint = "base_balance"   -> RATE_LIMIT_STRICT
    [] endpoint = "security_stats" -> RATE_LIMIT_STATS

\* A limiter that admits one request more than the limit (<= for <).
limiter_hit_OneMore(w, t, ip, endpoint, limit) ==
  LET key  == <<ip, endpoint>>
      live == key \in DOMAIN w.storage /\ w.storage[key].expiry > t
      cnt  == IF live THEN w.storage[key].count + 1 ELSE 1
      exp  == IF live THEN w.storage[key].expiry ELSE t + limit.per
  IN [w |-> [w EXCEPT !.storage = Put(@, key, [count |-> cnt, expiry |-> exp])],
      ret |-> cnt <= limit.amount + 1]

\* A limiter whose windows last one tick longer than the limit's period.
limiter_hit_LongWindow(w, t, ip, endpoint, limit) ==
  LET key  == <<ip, endpoint>>
      live == key \in DOMAIN w.storage /\ w.storage[key].expiry > t
      cnt  == IF live THEN w.storage[key].count + 1 ELSE 1
      exp  == IF live THEN w.storage[key].expiry ELSE t + limit.per + 1
  IN [w |-> [w EXCEPT !.storage = Put(@, key, [count |-> cnt, expiry |-> exp])],
      ret |-> cnt <= limit.amount]

\* A limiter that keeps one window per endpoint for all identities.
limiter_hit_SharedKey(w, t, ip, endpoint, limit) ==
  LET key  == << << >>, endpoint>>
      live == key \in DOMAIN w.storage /\ w.storage[key].expiry > t
      cnt  == IF live THEN w.storage[key].count + 1 ELSE 1
      exp  == IF live THEN w.storage[key].expiry ELSE t + limit.per
  IN [w |-> [w EXCEPT !.storage = Put(@, key, [count |-> cnt, expiry |-> exp])],
      ret |-> cnt <= limit.amount]

\* One hit of the fixed-window strategy (the Limiter's default) on the memory
\* storage: a window starts at the first hit after the previous one expired
\* and lasts limit.per; every hit counts, admitted or not.  The key is the
\* key_func's value (get_client_ip) and the endpoint.
limiter_hit(w, t, ip, endpoint, limit) ==
  LET key  == <<ip, endpoint>>
      live == key \in DOMAIN w.storage /\ w.storage[key].expiry > t
      cnt  == IF live THEN w.storage[key].count + 1 ELSE 1
      exp  == IF live THEN w.storage[key].expiry ELSE t + limit.per
  IN [w |-> [w EXCEPT !.storage = Put(@, key, [count |-> cnt, expiry |-> exp])],
      ret |-> cnt <= limit.amount]

\* The limiter's own before_request hook.  Limiter(app=app, ...) at line 176
\* registers it before security_checkpoint (line 187), so it runs first.  It
\* applies default_limits to a matched view that carries no @limiter.limit;
\* an unmatched request and a decorated view are left alone here.
limiter_before_request(w, t, req) ==
  LET endpoint == MatchRoute(req)
  IN IF endpoint \in {"404", "405"} \/ endpoint \in DecoratedViews
     THEN [w |-> w, ret |-> TRUE]
     ELSE limiter_hit([w EXCEPT !.trace = Append(@, "limiter")], t,
                      get_client_ip(req), endpoint, RATE_LIMIT_DEFAULT)

\* The wrapper @limiter.limit puts around a view: checked when the view is
\* called, outside @require_api_key.
limiter_decorator(w, t, req, endpoint) ==
  limiter_hit([w EXCEPT !.trace = Append(@, "limiter")], t,
              get_client_ip(req), endpoint, DecoratedLimit(endpoint))

(***************************************************************************)
(* Responses.                                                              *)
(***************************************************************************)
NoHeaders == {}

Response(status, code, error) ==
  [status |-> status, code |-> code, error |-> error, headers |-> NoHeaders]

\* add_security_headers (lines 211-235), the after_request hook.
SecurityHeaders ==
    { "X-Content-Type-Options", "X-Frame-Options", "X-XSS-Protection",
      "Strict-Transport-Security", "Content-Security-Policy",
      "Referrer-Policy", "Server", "Cache-Control", "Pragma" }

add_security_headers(response) ==
  [response EXCEPT !.headers = @ \cup SecurityHeaders]

\* The error handlers (lines 476-499).
not_found(w, t, req) ==
  [w |-> log_security_event(w, t, "404", get_client_ip(req), req.path, NoCount),
   resp |-> Response(404, "", "Endpoint not found")]

rate_limit_exceeded(w, t, req) ==
  [w |-> record_violation(w, t, get_client_ip(req), "Rate limit exceeded").w,
   resp |-> Response(429, "RATE_LIMITED", "Rate limit exceeded")]

request_too_large(w, t, req) ==
  [w |-> record_violation(w, t, get_client_ip(req), "Request too large").w,
   resp |-> Response(413, "PAYLOAD_TOO_LARGE", "Request too large")]

internal_error(w) ==
  [w |-> w, resp |-> Response(500, "", "Internal server error")]

\* A routing error no handler is registered for: the framework's own page.
method_not_allowed(w) ==
  [w |-> w, resp |-> Response(405, "", "Method Not Allowed")]

(***************************************************************************)
(* A stage's outcome: the state it leaves, the response it built (if any)  *)
(* and how control goes on: "next" (fall through), "done" (the response    *)
(* is returned), "raise" (an exception no handler of the stage caught).    *)
(***************************************************************************)
NoResponse == Response(0, "", "")

Continue(w) == [w |-> w, resp |-> NoResponse, st |-> "next"]
Return(w, resp) == [w |-> w, resp |-> resp, st |-> "done"]
Raise(w) == [w |-> w, resp |-> NoResponse, st |-> "raise"]

Stage(w, name) == [w EXCEPT !.trace = Append(@, name)]

\* security_checkpoint that compares the path as sent, without lower().
security_checkpoint_CaseSensitive(w, t, req) ==
  LET ip == get_client_ip(req)
      b  == is_ip_blocked([w EXCEPT !.trace = Append(@, "is_ip_blocked")], t, ip)
  IN IF b.ret
     THEN [w |-> log_security_event(b.w, t, "BLOCKED_REQUEST", ip, req.path, NoCount),
           resp |-> Response(403, "IP_BLOCKED", "Access denied"), st |-> "done"]
     ELSE IF req.path \in HONEYPOT_PATHS
     THEN [w |-> record_violation([b.w EXCEPT !.trace = Append(@, "honeypot")], t, ip,
                                  <<"Honeypot triggered", req.path>>).w,
           resp |-> Response(401, "", "Unauthorized"), st |-> "done"]
     ELSE [w |-> log_security_event([b.w EXCEPT !.trace = Append(@, "honeypot")], t,
                                    "REQUEST", ip, <<req.method, req.path>>, NoCount),
           resp |-> Response(0, "", ""), st |-> "next"]

\* security_checkpoint (lines 187-209), the application's before_request hook.
security_checkpoint(w, t, req) ==
  LET ip == get_client_ip(req)
      b  == is_ip_blocked(Stage(w, "is_ip_blocked"), t, ip)
  IN IF b.ret
     THEN Return(log_security_event(b.w, t, "BLOCKED_REQUEST", ip, req.path, NoCount),
                 Response(403, "IP_BLOCKED", "Access denied"))
     ELSE IF Lower(req.path) \in HONEYPOT_PATHS
     THEN Return(record_violation(Stage(b.w, "honeypot"), t, ip,
                                  <<"Honeypot triggered", req.path>>).w,
                 Response(401, "", "Unauthorized"))
     ELSE Continue(log_security_event(Stage(b.w, "honeypot"), t, "REQUEST", ip,
                                      <<req.method, req.path>>, NoCount))

\* `not x` for a header or environment value: None and '' are falsy.
Falsy(x) == x = None \/ x = << >>

\* require_api_key that rejects a missing key without recording a violation.
require_api_key_Silent(w, t, req, env) ==
  IF ~env.REQUIRE_API_KEY
  THEN Continue(w)
  ELSE IF Falsy(req.api_key)
  THEN Return(Stage(w, "require_api_key"),
              Response(401, "MISSING_KEY", "API key required"))
  ELSE IF Falsy(env.B0B_API_KEY) \/ ~constant_time_compare(req.api_key, env.B0B_API_KEY).ret
  THEN Return(record_violation(Stage(w, "require_api_key"), t, get_client_ip(req),
                               "Invalid API key").w,
              Response(401, "INVALID_KEY", "Invalid API key"))
  ELSE Continue(Stage(w, "require_api_key"))

\* require_api_key that asks for the key whatever the configuration says.
require_api_key_AlwaysOn(w, t, req, env) == 
  LET w1 == Stage(w, "require_api_key")
      ip == get_client_ip(req)
  IN IF Falsy(req.api_key)
     THEN Return(record_violation(w1, t, ip, "Missing API key").w,
                 Response(401, "MISSING_KEY", "API key required"))
     ELSE IF Falsy(env.B0B_API_KEY)
     THEN Return(record_violation(w1, t, ip, "Invalid API key").w,
                 Response(401, "INVALID_KEY", "Invalid API key"))
     ELSE LET c == constant_time_compare(req.api_key, env.B0B_API_KEY)
          IN IF c.raised
             THEN Raise(w1)
             ELSE IF ~c.ret
             THEN Return(record_violation(w1, t, ip, "Invalid API key").w,
                         Response(401, "INVALID_KEY", "Invalid API key"))
             ELSE Continue(w1)

\* require_api_key (lines 241-260), up to the call of the wrapped view.
\* g.client_ip is the identity security_checkpoint stored (line 192).
require_api_key(w, t, req, env) ==
  IF ~env.REQUIRE_API_KEY
  THEN Continue(w)
  ELSE LET w1 == Stage(w, "require_api_key")
           ip == get_client_ip(req)
           api_key   == req.api_key
           valid_key == env.B0B_API_KEY
       IN IF Falsy(api_key)
          THEN Return(record_violation(w1, t, ip, "Missing API key").w,
                      Response(401, "MISSING_KEY", "API key required"))
          ELSE IF Falsy(valid_key)
          THEN Return(record_violation(w1, t, ip, "Invalid API key").w,
                      Response(401, "INVALID_KEY", "Invalid API key"))
          ELSE LET c == constant_time_compare(api_key, valid_key)
               IN IF c.raised
                  THEN Raise(w1)
                  ELSE IF ~c.ret
                  THEN Return(record_violation(w1, t, ip, "Invalid API key").w,
                              Response(401, "INVALID_KEY", "Invalid API key"))
                  ELSE Continue(w1)

(***************************************************************************)
(* The views.  A request body is [kind, keys, message, model, address]:    *)
(* kind "json" is a JSON object with the fields named in keys, "none" a    *)
(* body get_json() cannot read, "oversize" one longer than                 *)
(* MAX_CONTENT_LENGTH.  get_json() raises on the last two.                 *)
(***************************************************************************)
DefaultModel == "claude-3-5-sonnet-20241022"

allowed_models ==
    { "claude-3-5-sonnet-20241022", "claude-3-opus-20250219",
      "claude-3-haiku-20250307", "claude-sonnet-4-20250514",
      "claude-opus-4-20250514" }

\* str(e) of the ValueError get_anthropic_client raises (line 270).
ClaudeKeyMissingText == "CLAUDE_API_KEY environment variable not set"

\* chat (lines 304-371).  ext is what client.messages.create does: "text"
\* (a text block), "empty" (no text block) or "error" (it raises).
chat(w0, t, req, env, ext) ==
  LET w == Stage(w0, "chat")
      body == req.body
  IN IF body.kind # "json"
     THEN Return(w, Response(500, "", "Internal error"))
     ELSE IF body.keys = {} \/ "message" \notin body.keys
     THEN Return(w, Response(400, "", "Message required"))
     ELSE LET message == sanitize_input(body.message, MAX_MESSAGE_LENGTH)
          IN IF Len(message) < 1
             THEN Return(w, Response(400, "", "Message too short"))
             ELSE LET requested == IF "model" \in body.keys THEN body.model
                                                           ELSE DefaultModel
                      w1 == IF requested \notin allowed_models
                            THEN record_violation(w, t, get_client_ip(req),
                                     <<"Invalid model requested", requested>>).w
                            ELSE w
                  IN IF Falsy(env.CLAUDE_API_KEY)
                     THEN Return(w1, Response(500, "", ClaudeKeyMissingText))
                     ELSE LET w2 == Stage(w1, "external")
                          IN CASE ext = "text"  -> Return(w2, Response(200, "", ""))
                               [] ext = "empty" ->
                                    Return(w2, Response(500, "", "No text response from Claude"))
                               [] OTHER -> Return(w2, Response(500, "", "Internal error"))

\* An address of the accepted form: '0x' and 40 more characters.
GoodAddress == <<"0", "x">> \o [i \in 1..40 |-> "a"]

\* base_balance (lines 376-402).
base_balance(w0, t, req) ==
  LET w == Stage(w0, "base_balance")
      body == req.body
  IN IF body.kind # "json"
     THEN Return(w, Response(500, "", "Internal error"))
     ELSE IF body.keys = {} \/ "address" \notin body.keys
     THEN Return(w, Response(400, "", "Address required"))
     ELSE LET address == sanitize_input(body.address, 50)
          IN IF ~(Len(address) >= 2 /\ SubSeq(address, 1, 2) = <<"0", "x">>)
                \/ Len(address) # 42
             THEN Return(record_violation(w, t, get_client_ip(req),
                             <<"Invalid address format", Truncate(address, 10)>>).w,
                         Response(400, "", "Invalid address format"))
             ELSE Return(w, Response(200, "", ""))

\* security_stats that compares the key with '' when no secret is configured.
security_stats_OpenWhenUnset(w0, req, env) ==
  LET w == Stage(w0, "security_stats")
      internal_key == IF Falsy(req.internal_key) THEN << >> ELSE req.internal_key
      valid_key    == IF Falsy(env.INTERNAL_API_KEY) THEN << >> ELSE env.INTERNAL_API_KEY
      c == constant_time_compare(internal_key, valid_key)
  IN IF c.raised THEN Raise(w)
     ELSE IF ~c.ret THEN Return(w, Response(401, "", "Unauthorized"))
     ELSE Return(Stage(w, "stats_data"), Response(200, "", ""))

\* security_stats (lines 453-470).
security_stats(w0, req, env) ==
  LET w == Stage(w0, "security_stats")
      internal_key == IF Falsy(req.internal_key) THEN << >> ELSE req.internal_key
      valid_key    == env.INTERNAL_API_KEY
  IN IF Falsy(valid_key)
     THEN Return(w, Response(401, "", "Unauthorized"))
     ELSE LET c == constant_time_compare(internal_key, valid_key)
          IN IF c.raised THEN Raise(w)
             ELSE IF ~c.ret THEN Return(w, Response(401, "", "Unauthorized"))
             ELSE Return(Stage(w, "stats_data"), Response(200, "", ""))

\* root, health (lines 273-299): undecorated views.
plain_view(w0, endpoint) == Return(Stage(w0, endpoint), Response(200, "", ""))

(***************************************************************************)
(* One request through the application: the before_request hooks in the    *)
(* order they were registered, the view behind its decorators, the error   *)
(* handlers, and the after_request hook on whatever response results.      *)
(***************************************************************************)
\* A view that carries @limiter.limit (and, for chat and base_balance,
\* @require_api_key inside it: lines 301-304, 373-376, 451-453).
decorated_view(w, t, req, env, ext, endpoint) ==
  LET h == limiter_decorator(w, t, req, endpoint)
  IN IF ~h.ret
     THEN LET e == rate_limit_exceeded(h.w, t, req) IN Return(e.w, e.resp)
     ELSE IF endpoint = "security_stats"
     THEN security_stats(h.w, req, env)
     ELSE LET k == require_api_key(h.w, t, req, env)
          IN IF k.st # "next" THEN k
             ELSE IF endpoint = "chat" THEN chat(k.w, t, req, env, ext)
             ELSE base_balance(k.w, t, req)

dispatch_request(w, t, req, env, ext) ==
  LET endpoint == MatchRoute(req)
  IN CASE endpoint = "404" -> LET e == not_found(w, t, req) IN Return(e.w, e.resp)
       [] endpoint = "405" -> LET e == method_not_allowed(w) IN Return(e.w, e.resp)
       [] endpoint \in DecoratedViews -> decorated_view(w, t, req, env, ext, endpoint)
       [] OTHER -> plain_view(w, endpoint)

\* A dispatch whose after_request hook is skipped for the response of the
\* 500 handler.
full_dispatch_request_BareError(w0, t, req, env, ext) ==
  LET w == [w0 EXCEPT !.trace = << >>, !.logged = << >>]
      m == limiter_before_request(w, t, req)
      o == IF ~m.ret
           THEN LET e == rate_limit_exceeded(m.w, t, req) IN Return(e.w, e.resp)
           ELSE LET c == security_checkpoint(m.w, t, req)
                IN IF c.st # "next" THEN c
                   ELSE dispatch_request(c.w, t, req, env, ext)
  IN IF o.st = "raise"
     THEN [w |-> o.w, resp |-> internal_error(o.w).resp]
     ELSE [w |-> o.w, resp |-> add_security_headers(o.resp)]

\* Flask's handling of one request (wsgi_app, full_dispatch_request) around
\* the hooks, views and handlers this application registers.
full_dispatch_request(w0, t, req, env, ext) ==
  LET w == [w0 EXCEPT !.trace = << >>, !.logged = << >>]
      m == limiter_before_request(w, t, req)
      o == IF ~m.ret
           THEN LET e == rate_limit_exceeded(m.w, t, req) IN Return(e.w, e.resp)
           ELSE LET c == security_checkpoint(m.w, t, req)
                IN IF c.st # "next" THEN c
                   ELSE dispatch_request(c.w, t, req, env, ext)
      handled == IF o.st = "raise"
                 THEN LET e == internal_error(o.w) IN Return(e.w, e.resp)
                 ELSE o
  IN [w |-> handled.w, resp |-> add_security_headers(handled.resp)]

(***************************************************************************)
(* The inputs the exploration draws from.                                  *)
(***************************************************************************)
ClientA == <<"1">>
ClientB == <<"2">>
\* X-Forwarded-For values: one hop, and a chain whose first hop is ClientB.
ForwardedA == <<"1">>
ForwardedB == <<"2", ",", " ", "1">>
RemoteAddr == <<"9">>

ApiSecret      == <<"k">>
InternalSecret == <<"i">>

AdminPath      == <<"/", "a", "d", "m", "i", "n">>
AdminPathUpper == <<"/", "A", "d", "m", "i", "n">>
UnknownPath    == <<"/", "x">>
Methods == { "GET", "POST" }

Str(s)    == [isstr |-> TRUE, text |-> s]
NonStr(s) == [isstr |-> FALSE, text |-> s]

NoBody == [kind |-> "none", keys |-> {}, message |-> Str(<< >>),
           model |-> DefaultModel, address |-> Str(<< >>)]
Json(keys, message, model, address) ==
  [kind |-> "json", keys |-> keys, message |-> message,
   model |-> model, address |-> address]

Req(f, m, p, k, ik, b) ==
  [forwarded |-> f, remote_addr |-> RemoteAddr, method |-> m, path |-> p,
   api_key |-> k, internal_key |-> ik, body |-> b]

Identities == { ClientA, ClientB }

\* The deployment's environment, read at start and on each request
\* (lines 66, 249, 268, 456).
EnvEnforced ==
  [REQUIRE_API_KEY |-> TRUE, B0B_API_KEY |-> ApiSecret,
   INTERNAL_API_KEY |-> InternalSecret, CLAUDE_API_KEY |-> <<"c">>]
EnvUnset ==
  [REQUIRE_API_KEY |-> TRUE, B0B_API_KEY |-> None,
   INTERNAL_API_KEY |-> None, CLAUDE_API_KEY |-> None]
EnvOpen ==
  [REQUIRE_API_KEY |-> FALSE, B0B_API_KEY |-> ApiSecret,
   INTERNAL_API_KEY |-> InternalSecret, CLAUDE_API_KEY |-> <<"c">>]

(***************************************************************************)
(* State.                                                                  *)
(***************************************************************************)
VARIABLES
  now,               \* time.time()
  blocked_ips,       \* line 88
  violation_counts,  \* line 89
  request_log,       \* line 90
  storage,           \* the limiter's storage (line 180)
  env,               \* os.getenv / SecurityConfig.REQUIRE_API_KEY
  request,           \* the request handled last
  response,          \* its response, with the identity and the stages it ran
  call,              \* the ledger function called last, with what it returned
  calls,             \* history: record_violation calls per identity since the
                     \* last observed expiry
  admitted,          \* history: per rate window key, the times of the requests
                     \* the limiter admitted within the trailing window length
  last_request,      \* history: per rate window key, the time of the latest
                     \* request, kept while it is younger than the window length
  threads            \* the position of each concurrent handler

prog == <<now, blocked_ips, violation_counts, request_log, storage, env>>
vars == <<now, blocked_ips, violation_counts, request_log, storage, env,
          request, response, call, calls, admitted, last_request, threads>>

World == [blocked_ips |-> blocked_ips, violation_counts |-> violation_counts,
          request_log |-> request_log, storage |-> storage,
          trace |-> << >>, logged |-> << >>]

NoRequest == Req(<< >>, "", << >>, None, None, NoBody)
NoCall == [fn |-> "", ip |-> << >>, ret |-> FALSE]

Threads == 1..2
Idle == [pc |-> "idle", ip |-> << >>, tmp |-> 0, ret |-> "none"]

InitState(e) ==
  /\ now = 0
  /\ blocked_ips = << >>
  /\ violation_counts = [ip \in Identities |-> 0]
  /\ request_log = << >>
  /\ storage = << >>
  /\ env = e
  /\ request = NoRequest
  /\ response = [resp |-> NoResponse, ip |-> << >>, ext |-> "",
                 trace |-> << >>, logged |-> << >>]
  /\ call = NoCall
  /\ calls = [ip \in Identities |-> 0]
  /\ admitted = << >>
  /\ last_request = << >>
  /\ threads = [t \in Threads |-> Idle]

\* Within the exploration's bounds: counters that the code lets grow.
WithinBounds(w) ==
  /\ \A ip \in Identities : w.violation_counts[ip] <= MaxViolations
  /\ \A k \in DOMAIN w.storage : w.storage[k].count <= MaxHits

\* The storage's expiry of elapsed windows, as time passes.
Expire(st, t) ==
  LET keep == { k \in DOMAIN st : st[k].expiry > t } IN [k \in keep |-> st[k]]

\* The window length of the limit that applies to an endpoint.
PerOf(endpoint) ==
  IF endpoint \in DecoratedViews THEN DecoratedLimit(endpoint).per
  ELSE RATE_LIMIT_DEFAULT.per

\* History kept only as far back as the trailing window reaches.
RECURSIVE Since(_, _)
Since(times, t) ==
  IF times = << >> THEN << >>
  ELSE IF Head(times) > t THEN times ELSE Since(Tail(times), t)

Trailing(adm, t) ==
  LET kept == [k \in DOMAIN adm |-> Since(adm[k], t - PerOf(k[2]))]
  IN [k \in { x \in DOMAIN kept : kept[x] # << >> } |-> kept[k]]

Tick ==
  /\ now < MaxTime
  /\ now' = now + 1
  /\ storage' = Expire(storage, now + 1)
  /\ admitted' = Trailing(admitted, now + 1)
  /\ last_request' = [k \in { x \in DOMAIN last_request :
                                 last_request[x] > now + 1 - PerOf(x[2]) }
                        |-> last_request[k]]
  /\ UNCHANGED <<blocked_ips, violation_counts, request_log, env, request,
                 response, call, calls, threads>>

\* The application handles req; ext is the external collaborator's answer.
Handle(req, ext) ==
  \E r \in { full_dispatch_request(World, now, req, env, ext) } :
     /\ WithinBounds(r.w)
     /\ blocked_ips' = r.w.blocked_ips
     /\ violation_counts' = r.w.violation_counts
     /\ request_log' = r.w.request_log
     /\ storage' = r.w.storage
     /\ request' = req
     /\ response' = [resp |-> r.resp, ip |-> get_client_ip(req), ext |-> ext,
                     trace |-> r.w.trace, logged |-> r.w.logged]
     /\ UNCHANGED <<now, env, call, calls, threads>>

(***************************************************************************)
(* The gate: requests of one client, without credentials, to every kind    *)
(* of path, under enforcement.                                             *)
(***************************************************************************)
GatePaths == { RootPath, ChatPath, AdminPath, AdminPathUpper, UnknownPath }
GateBodies == { NoBody, [NoBody EXCEPT !.kind = "oversize"] }
GateRequests ==
    { Req(ForwardedA, m, p, None, None, NoBody) : m \in Methods, p \in GatePaths }
    \cup { Req(ForwardedA, m, p, None, None, b) :
             m \in Methods, p \in {AdminPath, AdminPathUpper}, b \in GateBodies }

GateRequest ==
  \E req \in GateRequests : Handle(req, "text") /\ UNCHANGED <<admitted, last_request>>

InitGate == InitState(EnvEnforced)
NextGate == Tick \/ GateRequest
SpecGate == InitGate /\ [][NextGate]_vars

(***************************************************************************)
(* The credential check: requests of one client to the protected routes,   *)
(* with every kind of key and body, under enforcement.                     *)
(***************************************************************************)
WrongKey     == <<"x">>
LongKey      == <<"k", "k">>
NonAsciiKey  == <<NonAscii>>
CredKeys == { None, << >>, ApiSecret, WrongKey, LongKey, NonAsciiKey }

GoodMessage  == Json({"message"}, Str(<<"h", "i">>), DefaultModel, Str(<< >>))
OtherModel   == Json({"message", "model"}, Str(<<"h", "i">>), "gpt-4", Str(<< >>))
TagMessage   == Json({"message"}, Str(<<"<", "b", ">">>), DefaultModel, Str(<< >>))
NoMessage    == Json({"model"}, Str(<< >>), DefaultModel, Str(<< >>))
GoodBalance  == Json({"address"}, Str(<< >>), DefaultModel, Str(GoodAddress))
BadBalance   == Json({"address"}, Str(<< >>), DefaultModel, Str(<<"0", "y">>))

CredRequests ==
    { Req(ForwardedA, "POST", ChatPath, k, None, GoodMessage) : k \in CredKeys }
    \cup { Req(ForwardedA, "POST", ChatPath, ApiSecret, None, b) :
              b \in { OtherModel, TagMessage, NoMessage, NoBody } }
    \cup { Req(ForwardedA, "POST", BalancePath, k, None, GoodBalance) :
              k \in { None, WrongKey, ApiSecret } }
    \cup { Req(ForwardedA, "POST", BalancePath, ApiSecret, None, BadBalance) }

CredRequest ==
  \E req \in CredRequests : Handle(req, "text") /\ UNCHANGED <<admitted, last_request>>

\* The same, with the external collaborator failing.
CollaboratorFails ==
  \E ext \in { "empty", "error" } :
    Handle(Req(ForwardedA, "POST", ChatPath, ApiSecret, None, GoodMessage), ext)
      /\ UNCHANGED <<admitted, last_request>>

InitCred == InitState(EnvEnforced)
NextCred == Tick \/ CredRequest \/ CollaboratorFails
SpecCred == InitCred /\ [][NextCred]_vars

(***************************************************************************)
(* Enforcement disabled: requests of one client to the guarded routes with *)
(* every kind of key, REQUIRE_API_KEY being false.                         *)
(***************************************************************************)
OpenRequests ==
    { Req(ForwardedA, "POST", ChatPath, k, None, GoodMessage) : k \in CredKeys }
    \cup { Req(ForwardedA, "POST", BalancePath, k, None, GoodBalance) :
              k \in { None, WrongKey, ApiSecret } }
    \cup { Req(ForwardedA, "POST", ChatPath, WrongKey, None, OtherModel) }

OpenRequest ==
  \E req \in OpenRequests : Handle(req, "text") /\ UNCHANGED <<admitted, last_request>>

InitOpen == InitState(EnvOpen)
NextOpen == Tick \/ OpenRequest
SpecOpen == InitOpen /\ [][NextOpen]_vars

(***************************************************************************)
(* Faults: chat requests of one client that make the view, the external    *)
(* collaborator or the credential check raise, in a deployment with and    *)
(* one without CLAUDE_API_KEY.                                             *)
(***************************************************************************)
EnvNoClaude == [EnvEnforced EXCEPT !.CLAUDE_API_KEY = None]

FaultRequests ==
    { Req(ForwardedA, "POST", ChatPath, ApiSecret, None, b) :
         b \in { GoodMessage, OtherModel, NoBody } }
    \cup { Req(ForwardedA, "POST", ChatPath, NonAsciiKey, None, GoodMessage) }

FaultRequest ==
  \E req \in FaultRequests, ext \in { "text", "empty", "error" } :
    Handle(req, ext) /\ UNCHANGED <<admitted, last_request>>

InitFault == \E e \in { EnvEnforced, EnvNoClaude } : InitState(e)
NextFault == Tick \/ FaultRequest
SpecFault == InitFault /\ [][NextFault]_vars

(***************************************************************************)
(* The diagnostics route: requests of one client to                        *)
(* /api/internal/security/stats with every kind of internal key.           *)
(***************************************************************************)
InternalKeys == { None, << >>, WrongKey, LongKey, InternalSecret }

StatsRequests ==
    { Req(ForwardedA, "GET", StatsPath, None, ik, NoBody) : ik \in InternalKeys }

StatsRequest ==
  \E req \in StatsRequests :
    /\ Handle(req, "text")
    /\ admitted' =
         LET k == <<get_client_ip(req), MatchRoute(req)>>
         IN IF \E i \in 1..Len(response'.trace) : response'.trace[i] = k[2]
            THEN Put(admitted, k,
                     Append(IF k \in DOMAIN admitted THEN admitted[k] ELSE << >>, now))
            ELSE admitted
    /\ last_request' = Put(last_request, <<get_client_ip(req), MatchRoute(req)>>, now)

InitStats == InitState(EnvEnforced)
NextStats == Tick \/ StatsRequest
SpecStats == InitStats /\ [][NextStats]_vars

(***************************************************************************)
(* Two identities side by side: requests of one client to a route under   *)
(* the default limit, and of that client and another, without a key, to    *)
(* the chat route.                                                         *)
(***************************************************************************)
FrameRequests ==
    { Req(ForwardedA, "GET", RootPath, None, None, NoBody) }
    \cup { Req(f, "POST", ChatPath, None, None, GoodMessage) :
              f \in { ForwardedA, ForwardedB } }

FrameRequest ==
  \E req \in FrameRequests : Handle(req, "text") /\ UNCHANGED <<admitted, last_request>>

InitFrame == InitState(EnvEnforced)
NextFrame == Tick \/ FrameRequest
SpecFrame == InitFrame /\ [][NextFrame]_vars

(***************************************************************************)
(* No secret configured: requests of one client to the protected routes    *)
(* and the diagnostics route with every kind of key, B0B_API_KEY and       *)
(* INTERNAL_API_KEY being unset or empty.                                  *)
(***************************************************************************)
EnvEmpty == [EnvUnset EXCEPT !.B0B_API_KEY = << >>, !.INTERNAL_API_KEY = << >>]

UnsetRequests ==
    { Req(ForwardedA, "POST", ChatPath, k, None, GoodMessage) :
         k \in { None, ApiSecret, NonAsciiKey } }
    \cup { Req(ForwardedA, "POST", BalancePath, ApiSecret, None, GoodBalance) }
    \cup { Req(ForwardedA, "GET", StatsPath, None, ik, NoBody) :
              ik \in { None, << >>, InternalSecret } }

UnsetRequest ==
  \E req \in UnsetRequests : Handle(req, "text") /\ UNCHANGED <<admitted, last_request>>

InitUnset == \E e \in { EnvUnset, EnvEmpty } : InitState(e)
NextUnset == Tick \/ UnsetRequest
SpecUnset == InitUnset /\ [][NextUnset]_vars

(***************************************************************************)
(* The rate limiter: requests of one client, with the correct key, to a    *)
(* route under the default limit and to the chat route.                    *)
(***************************************************************************)
RateRequests ==
    { Req(ForwardedA, "GET", RootPath, None, None, NoBody),
      Req(ForwardedA, "POST", ChatPath, ApiSecret, None, GoodMessage) }

\* The limit that applies to an endpoint.
LimitOf(endpoint) ==
  IF endpoint \in DecoratedViews THEN DecoratedLimit(endpoint)
  ELSE RATE_LIMIT_DEFAULT

\* A request is admitted when its view runs; the time is noted then.
RateRequest ==
  \E req \in RateRequests :
    /\ Handle(req, "text")
    /\ admitted' =
         LET k == <<get_client_ip(req), MatchRoute(req)>>
         IN IF \E i \in 1..Len(response'.trace) : response'.trace[i] = k[2]
            THEN Put(admitted, k,
                     Append(IF k \in DOMAIN admitted THEN admitted[k] ELSE << >>, now))
            ELSE admitted
    /\ last_request' = Put(last_request, <<get_client_ip(req), MatchRoute(req)>>, now)

InitRate == InitState(EnvEnforced)
NextRate == Tick \/ RateRequest
SpecRate == InitRate /\ [][NextRate]_vars

(***************************************************************************)
(* Several identities on one route: requests of two clients to a route     *)
(* under the default limit.                                                *)
(***************************************************************************)
GlobalRequests ==
    { Req(ForwardedA, "GET", RootPath, None, None, NoBody),
      Req(ForwardedB, "GET", RootPath, None, None, NoBody) }

GlobalRequest ==
  \E req \in GlobalRequests :
    /\ Handle(req, "text")
    /\ admitted' =
         LET k == <<get_client_ip(req), MatchRoute(req)>>
         IN IF \E i \in 1..Len(response'.trace) : response'.trace[i] = k[2]
            THEN Put(admitted, k,
                     Append(IF k \in DOMAIN admitted THEN admitted[k] ELSE << >>, now))
            ELSE admitted
    /\ last_request' = Put(last_request, <<get_client_ip(req), MatchRoute(req)>>, now)

InitGlobal == InitState(EnvEnforced)
NextGlobal == Tick \/ GlobalRequest
SpecGlobal == InitGlobal /\ [][NextGlobal]_vars

(***************************************************************************)
(* Every kind of response: requests of one client that are answered by     *)
(* each branch of the pipeline.                                            *)
(***************************************************************************)
AnyRequests ==
    { Req(ForwardedA, "GET", RootPath, None, None, NoBody),
      Req(ForwardedA, "GET", AdminPath, None, None, NoBody),
      Req(ForwardedA, "GET", UnknownPath, None, None, NoBody),
      Req(ForwardedA, "GET", ChatPath, None, None, NoBody),
      Req(ForwardedA, "POST", ChatPath, None, None, GoodMessage),
      Req(ForwardedA, "POST", ChatPath, NonAsciiKey, None, GoodMessage),
      Req(ForwardedA, "POST", ChatPath, ApiSecret, None, GoodMessage),
      Req(ForwardedA, "POST", ChatPath, ApiSecret, None,
          [NoBody EXCEPT !.kind = "oversize"]) }

AnyRequest ==
  \E req \in AnyRequests : Handle(req, "text") /\ UNCHANGED <<admitted, last_request>>

InitAny == InitState(EnvEnforced)
NextAny == Tick \/ AnyRequest
SpecAny == InitAny /\ [][NextAny]_vars

(***************************************************************************)
(* The ledger alone: its two functions called in any order.                *)
(***************************************************************************)
CallIsIpBlocked ==
  \E ip \in Identities :
    LET r == is_ip_blocked(World, now, ip)
        elapsed == ip \in DOMAIN blocked_ips /\ ~r.ret
    IN /\ blocked_ips' = r.w.blocked_ips
       /\ violation_counts' = r.w.violation_counts
       /\ request_log' = r.w.request_log
       /\ call' = [fn |-> "is_ip_blocked", ip |-> ip, ret |-> r.ret]
       /\ calls' = IF elapsed THEN [calls EXCEPT ![ip] = 0] ELSE calls
       /\ UNCHANGED <<now, storage, env, request, response, admitted,
                      last_request, threads>>

CallRecordViolation ==
  \E ip \in Identities :
    LET r == record_violation(World, now, ip, "reason")
    IN /\ WithinBounds(r.w)
       /\ blocked_ips' = r.w.blocked_ips
       /\ violation_counts' = r.w.violation_counts
       /\ request_log' = r.w.request_log
       /\ call' = [fn |-> "record_violation", ip |-> ip, ret |-> r.ret]
       /\ calls' = [calls EXCEPT ![ip] = @ + 1]
       /\ UNCHANGED <<now, storage, env, request, response, admitted,
                      last_request, threads>>

InitLedger == InitState(EnvEnforced)
NextLedger == Tick \/ CallIsIpBlocked \/ CallRecordViolation
SpecLedger == InitLedger /\ [][NextLedger]_vars

(***************************************************************************)
(* The audit log alone: log_security_event called with any event, at any   *)
(* time.  call.all is the history of every entry appended so far.          *)
(***************************************************************************)
CallLogSecurityEvent ==
  \E event_type \in { "REQUEST", "VIOLATION" }, ip \in Identities :
    LET all == IF call.fn = "log_security_event" THEN call.all ELSE << >>
        entry == [timestamp |-> now, event |-> event_type, ip |-> ip,
                  details |-> "details", violation_count |-> NoCount]
    IN /\ Len(all) < MaxAppends
       /\ request_log' = log_security_event(World, now, event_type, ip,
                                            "details", NoCount).request_log
       /\ call' = [fn |-> "log_security_event", ip |-> ip, ret |-> FALSE,
                   all |-> Append(all, entry)]
       /\ UNCHANGED <<now, blocked_ips, violation_counts, storage, env, request,
                      response, calls, admitted, last_request, threads>>

InitLog == InitState(EnvEnforced)
NextLog == Tick \/ CallLogSecurityEvent
SpecLog == InitLog /\ [][NextLog]_vars

(***************************************************************************)
(* sanitize_input alone, called with strings and with JSON lists of one    *)
(* string (the values data['message'] can hold), and every maximum length. *)
(***************************************************************************)
MaxTextLen == 3

Texts(alphabet, n) == UNION { [1..k -> alphabet] : k \in 0..n }

MarkupTexts == Texts({ "<", "b", ">", "x" }, MaxTextLen)

\* str(value) of a list holding the one string s.
ListOf(s) == NonStr(<<"[", "'">> \o s \o <<"'", "]">>)

SanitizeInputs == { Str(s) : s \in MarkupTexts } \cup { ListOf(s) : s \in MarkupTexts }

\* max_length: None (0 here), and every length up to the configured one.
MaxLengths == 0..MAX_MESSAGE_LENGTH

CallSanitizeInput ==
  \E v \in SanitizeInputs, max_length \in MaxLengths :
    /\ call' = [fn |-> "sanitize_input", ip |-> << >>, ret |-> FALSE,
                text |-> v, max_length |-> max_length,
                cleaned |-> sanitize_input(v, max_length)]
    /\ UNCHANGED <<now, blocked_ips, violation_counts, request_log, storage, env,
                   request, response, calls, admitted, last_request, threads>>

InitSanitize == InitState(EnvEnforced)
NextSanitize == CallSanitizeInput
SpecSanitize == InitSanitize /\ [][NextSanitize]_vars

(***************************************************************************)
(* get_client_ip alone, called with every forwarding header and peer       *)
(* address.                                                                *)
(***************************************************************************)
\* X-Forwarded-For values as the server hands them over: with no whitespace
\* at either end ('' when the header is absent).
ForwardedValues ==
  { s \in Texts({ "1", "2", ",", " " }, MaxTextLen) :
      s = << >> \/ (~IsSpace(s[1]) /\ ~IsSpace(s[Len(s)])) }

\* request.remote_addr: None or '' (both the empty sequence), or an address.
RemoteAddrs == { << >>, RemoteAddr, ClientB }

CallGetClientIp ==
  \E forwarded \in ForwardedValues, remote_addr \in RemoteAddrs :
    LET req == [Req(forwarded, "GET", RootPath, None, None, NoBody)
                  EXCEPT !.remote_addr = remote_addr]
    IN /\ call' = [fn |-> "get_client_ip", ip |-> get_client_ip(req), ret |-> FALSE,
                   forwarded |-> forwarded, remote_addr |-> remote_addr]
       /\ UNCHANGED <<now, blocked_ips, violation_counts, request_log, storage, env,
                      request, response, calls, admitted, last_request, threads>>

InitIp == InitState(EnvEnforced)
NextIp == CallGetClientIp
SpecIp == InitIp /\ [][NextIp]_vars

(***************************************************************************)
(* Concurrent handlers (app.run serves each request on a thread of its     *)
(* own): record_violation statement by statement, the read and the write   *)
(* of `violation_counts[ip] += 1` being two steps, with no lock held.      *)
(***************************************************************************)
ThreadVars == <<now, storage, env, request, response, call, admitted,
                last_request>>

\* A handler calls record_violation(ip, reason).
RvCall(t) ==
  \E ip \in Identities :
    /\ threads[t].pc = "idle"
    /\ calls[ip] < MaxViolations
    /\ threads' = [threads EXCEPT ![t] = [Idle EXCEPT !.pc = "load", !.ip = ip]]
    /\ calls' = [calls EXCEPT ![ip] = @ + 1]
    /\ UNCHANGED <<blocked_ips, violation_counts, request_log>>
    /\ UNCHANGED ThreadVars

\* Line 112, the read of violation_counts[ip].
RvLoad(t) ==
  /\ threads[t].pc = "load"
  /\ threads' = [threads EXCEPT ![t].pc = "store",
                                ![t].tmp = violation_counts[threads[t].ip]]
  /\ UNCHANGED <<blocked_ips, violation_counts, request_log, calls>>
  /\ UNCHANGED ThreadVars

\* Line 112, the write of the sum.
RvStore(t) ==
  /\ threads[t].pc = "store"
  /\ violation_counts' = [violation_counts EXCEPT ![threads[t].ip] = threads[t].tmp + 1]
  /\ threads' = [threads EXCEPT ![t].pc = "log"]
  /\ UNCHANGED <<blocked_ips, request_log, calls>>
  /\ UNCHANGED ThreadVars

\* Line 113.
RvLog(t) ==
  /\ threads[t].pc = "log"
  /\ request_log' = log_security_event(World, now, "VIOLATION", threads[t].ip,
                                       "reason", violation_counts[threads[t].ip]).request_log
  /\ threads' = [threads EXCEPT ![t].pc = "check"]
  /\ UNCHANGED <<blocked_ips, violation_counts, calls>>
  /\ UNCHANGED ThreadVars

\* Line 115, and line 119 when the threshold is not reached.
RvCheck(t) ==
  /\ threads[t].pc = "check"
  /\ threads' = IF violation_counts[threads[t].ip] >= BLOCK_THRESHOLD
                THEN [threads EXCEPT ![t].pc = "block"]
                ELSE [threads EXCEPT ![t].pc = "done", ![t].ret = "False"]
  /\ UNCHANGED <<blocked_ips, violation_counts, request_log, calls>>
  /\ UNCHANGED ThreadVars

\* Lines 116-118.
RvBlock(t) ==
  /\ threads[t].pc = "block"
  /\ blocked_ips' = Put(blocked_ips, threads[t].ip, now + BLOCK_DURATION)
  /\ request_log' = log_security_event(World, now, "IP_BLOCKED", threads[t].ip,
                                       <<"Blocked for", BLOCK_DURATION>>,
                                       violation_counts[threads[t].ip]).request_log
  /\ threads' = [threads EXCEPT ![t].pc = "done", ![t].ret = "True"]
  /\ UNCHANGED <<violation_counts, calls>>
  /\ UNCHANGED ThreadVars

\* The handler goes on and ends.
RvReturn(t) ==
  /\ threads[t].pc = "done"
  /\ threads' = [threads EXCEPT ![t] = Idle]
  /\ UNCHANGED <<blocked_ips, violation_counts, request_log, calls>>
  /\ UNCHANGED ThreadVars

InitConc == InitState(EnvEnforced)
NextConc ==
  \E t \in Threads :
    RvCall(t) \/ RvLoad(t) \/ RvStore(t) \/ RvLog(t) \/ RvCheck(t)
      \/ RvBlock(t) \/ RvReturn(t)
SpecConc == InitConc /\ [][NextConc]_vars

(***************************************************************************)
(* Concurrent gate checks: is_ip_blocked statement by statement in two     *)
(* handlers, starting from the state in which ClientA has just been        *)
(* blocked, with time passing.                                             *)
(***************************************************************************)
\* The world after record_violation has been called k times for ip.
RECURSIVE Violated(_, _, _, _)
Violated(w, t, ip, k) ==
  IF k = 0 THEN w ELSE Violated(record_violation(w, t, ip, "reason").w, t, ip, k - 1)

JustBlocked ==
  Violated([blocked_ips |-> << >>, violation_counts |-> [ip \in Identities |-> 0],
            request_log |-> << >>, storage |-> << >>, trace |-> << >>,
            logged |-> << >>],
           0, ClientA, BLOCK_THRESHOLD)

\* security_checkpoint calls is_ip_blocked(ip) (line 195); tmp notes whether
\* the identity's blockedUntil has elapsed by then.
IbCall(t) ==
  \E ip \in Identities :
    /\ threads[t].pc = "idle"
    /\ threads' = [threads EXCEPT ![t] =
                     [Idle EXCEPT !.pc = "in", !.ip = ip,
                                  !.tmp = IF ip \in DOMAIN blocked_ips
                                             /\ now >= blocked_ips[ip]
                                          THEN 1 ELSE 0]]
    /\ UNCHANGED <<blocked_ips, violation_counts, request_log, calls>>
    /\ UNCHANGED ThreadVars

\* Line 102: `if ip in blocked_ips`, and line 108 when it is not.
IbIn(t) ==
  /\ threads[t].pc = "in"
  /\ threads' = IF threads[t].ip \in DOMAIN blocked_ips
                THEN [threads EXCEPT ![t].pc = "compare"]
                ELSE [threads EXCEPT ![t].pc = "done", ![t].ret = "False"]
  /\ UNCHANGED <<blocked_ips, violation_counts, request_log, calls>>
  /\ UNCHANGED ThreadVars

\* Lines 103-104: `time.time() < blocked_ips[ip]`; the subscript raises
\* KeyError when the entry is gone.
IbCompare(t) ==
  /\ threads[t].pc = "compare"
  /\ threads' = IF threads[t].ip \notin DOMAIN blocked_ips
                THEN [threads EXCEPT ![t].pc = "done", ![t].ret = "KeyError"]
                ELSE IF now < blocked_ips[threads[t].ip]
                THEN [threads EXCEPT ![t].pc = "done", ![t].ret = "True"]
                ELSE [threads EXCEPT ![t].pc = "del"]
  /\ UNCHANGED <<blocked_ips, violation_counts, request_log, calls>>
  /\ UNCHANGED ThreadVars

\* Line 106: `del blocked_ips[ip]`, KeyError when the entry is gone.
IbDel(t) ==
  /\ threads[t].pc = "del"
  /\ IF threads[t].ip \in DOMAIN blocked_ips
     THEN /\ blocked_ips' = Del(blocked_ips, threads[t].ip)
          /\ threads' = [threads EXCEPT ![t].pc = "reset"]
     ELSE /\ blocked_ips' = blocked_ips
          /\ threads' = [threads EXCEPT ![t].pc = "done", ![t].ret = "KeyError"]
  /\ UNCHANGED <<violation_counts, request_log, calls>>
  /\ UNCHANGED ThreadVars

\* Lines 107-108.
IbReset(t) ==
  /\ threads[t].pc = "reset"
  /\ violation_counts' = [violation_counts EXCEPT ![threads[t].ip] = 0]
  /\ threads' = [threads EXCEPT ![t].pc = "done", ![t].ret = "False"]
  /\ UNCHANGED <<blocked_ips, request_log, calls>>
  /\ UNCHANGED ThreadVars

\* The check has returned or raised; the handler goes on and ends.
IbReturn(t) ==
  /\ threads[t].pc = "done"
  /\ threads' = [threads EXCEPT ![t] = Idle]
  /\ UNCHANGED <<blocked_ips, violation_counts, request_log, calls>>
  /\ UNCHANGED ThreadVars

InitExpiry ==
  /\ now = 0
  /\ blocked_ips = JustBlocked.blocked_ips
  /\ violation_counts = JustBlocked.violation_counts
  /\ request_log = JustBlocked.request_log
  /\ storage = << >>
  /\ env = EnvEnforced
  /\ request = NoRequest
  /\ response = [resp |-> NoResponse, ip |-> << >>, ext |-> "",
                 trace |-> << >>, logged |-> << >>]
  /\ call = NoCall
  /\ calls = [ip \in Identities |-> IF ip = ClientA THEN BLOCK_THRESHOLD ELSE 0]
  /\ admitted = << >>
  /\ last_request = << >>
  /\ threads = [t \in Threads |-> Idle]

NextExpiry ==
  \/ Tick
  \/ \E t \in Threads :
       IbCall(t) \/ IbIn(t) \/ IbCompare(t) \/ IbDel(t) \/ IbReset(t) \/ IbReturn(t)
SpecExpiry == InitExpiry /\ [][NextExpiry]_vars

(***************************************************************************)
(* The whole ledger under concurrency: record_violation and is_ip_blocked   *)
(* statement by statement in two handlers, with time passing.              *)
(***************************************************************************)
InitMixed == InitState(EnvEnforced)
NextMixed ==
  \/ Tick
  \/ \E t \in Threads :
       \/ RvCall(t) \/ RvLoad(t) \/ RvStore(t) \/ RvLog(t) \/ RvCheck(t) \/ RvBlock(t)
       \/ IbCall(t) \/ IbIn(t) \/ IbCompare(t) \/ IbDel(t) \/ IbReset(t)
       \/ IbReturn(t)
SpecMixed == InitMixed /\ [][NextMixed]_vars

(***************************************************************************)
(* Properties of the ledger (SpecLedger).                                  *)
(***************************************************************************)
\* The identity is blocked at this moment: it has a blockedUntil not yet reached.
BlockedNow(ip) == ip \in DOMAIN blocked_ips /\ now < blocked_ips[ip]

\* No blockedUntil of the identity has elapsed.
NotElapsed(ip) == ip \notin DOMAIN blocked_ips \/ now < blocked_ips[ip]

\* A step in which the program acts (time stands still meanwhile).
ActStep == now' = now

\* C1: once record_violation has been called BLOCK_THRESHOLD times for an
\* identity with no expiry observed in between, the identity has a
\* blockedUntil, and every is_ip_blocked check made before that time has
\* elapsed returns true.
C1_ThresholdBlocks ==
  [][ /\ \A ip \in Identities :
           calls'[ip] >= BLOCK_THRESHOLD => ip \in DOMAIN blocked_ips'
      /\ (ActStep /\ call'.fn = "is_ip_blocked"
            /\ calls[call'.ip] >= BLOCK_THRESHOLD /\ NotElapsed(call'.ip))
           => call'.ret = TRUE ]_vars

C1_Witness ==
  /\ call = [fn |-> "is_ip_blocked", ip |-> ClientA, ret |-> TRUE]
  /\ calls[ClientA] = BLOCK_THRESHOLD
  /\ now = 1

\* C3: the is_ip_blocked check that finds blockedUntil elapsed returns false,
\* removes blockedUntil and sets the count to 0; a check of an identity with
\* no blockedUntil returns false and one before expiry returns true, both
\* changing nothing; the passing of time alone clears nothing.
C3_LazyExpiry ==
  [][ /\ (ActStep /\ call'.fn = "is_ip_blocked") =>
           LET ip == call'.ip
           IN IF ip \in DOMAIN blocked_ips /\ now >= blocked_ips[ip]
              THEN /\ call'.ret = FALSE
                   /\ blocked_ips' = Del(blocked_ips, ip)
                   /\ violation_counts' = [violation_counts EXCEPT ![ip] = 0]
                   /\ request_log' = request_log
              ELSE /\ call'.ret = (ip \in DOMAIN blocked_ips)
                   /\ UNCHANGED <<blocked_ips, violation_counts, request_log>>
      /\ ~ActStep => UNCHANGED <<blocked_ips, violation_counts, request_log>> ]_vars

C3_Witness ==
  /\ call = [fn |-> "is_ip_blocked", ip |-> ClientA, ret |-> FALSE]
  /\ now >= BLOCK_DURATION
  /\ ClientA \notin DOMAIN blocked_ips
  /\ violation_counts[ClientA] = 0
  /\ request_log # << >>
  /\ request_log[Len(request_log)].event = "IP_BLOCKED"
  /\ request_log[Len(request_log)].ip = ClientA

(***************************************************************************)
(* Properties of the gate (SpecGate).                                      *)
(***************************************************************************)
\* The violation count once an elapsed block has been observed: 0 then.
EffectiveCount(ip) ==
  IF ip \in DOMAIN blocked_ips /\ now >= blocked_ips[ip]
  THEN 0 ELSE violation_counts[ip]

\* The rate windows of an identity.
WindowsOf(st, ip) == [k \in { x \in DOMAIN st : x[1] = ip } |-> st[k]]

\* C2: a request of a blocked identity, whatever its path or method, is
\* answered 403 IP_BLOCKED with one BLOCKED_REQUEST entry, runs nothing but
\* the blocklist check, and leaves the identity's count, blockedUntil and
\* rate windows as they were.
C2_BlockedShortCircuit ==
  [][ (ActStep /\ BlockedNow(response'.ip)) =>
        /\ response'.resp.status = 403
        /\ response'.resp.code = "IP_BLOCKED"
        /\ response'.logged = <<"BLOCKED_REQUEST">>
        /\ response'.trace = <<"is_ip_blocked">>
        /\ violation_counts'[response'.ip] = violation_counts[response'.ip]
        /\ blocked_ips' = blocked_ips
        /\ WindowsOf(storage', response'.ip) = WindowsOf(storage, response'.ip) ]_vars

\* A request to a honeypot path, in any letter case, of an identity that is
\* not blocked.
HoneypotStep ==
  /\ ActStep
  /\ Lower(request'.path) \in HONEYPOT_PATHS
  /\ ~BlockedNow(response'.ip)

\* C4 as stated: such a request is answered 401, adds exactly 1 to the
\* count the identity had, and runs no view.
C4_HoneypotAddsOne ==
  [][ HoneypotStep =>
        /\ response'.resp.status = 401
        /\ violation_counts'[response'.ip] = violation_counts[response'.ip] + 1
        /\ response'.trace = <<"is_ip_blocked", "honeypot">> ]_vars

\* C4, amended: such a request is answered 401, records one violation and
\* runs no view; the count becomes 1 more than it was, or 1 when the same
\* request found an elapsed block and cleared the count first.
C4_HoneypotCounts ==
  [][ HoneypotStep =>
        /\ response'.resp.status = 401
        /\ violation_counts'[response'.ip] = EffectiveCount(response'.ip) + 1
        /\ \A i \in 1..Len(response'.logged) :
             response'.logged[i] = "VIOLATION" <=> i = 1
        /\ response'.trace = <<"is_ip_blocked", "honeypot">> ]_vars

C4_Witness ==
  /\ request.path = AdminPathUpper
  /\ request.method = "POST"
  /\ request.body.kind = "oversize"
  /\ response.resp.status = 401
  /\ violation_counts[ClientA] = 2

(***************************************************************************)
(* Properties of the credential check (SpecCred).                          *)
(***************************************************************************)
\* The request is to a route behind @require_api_key.
Protected(req) == MatchRoute(req) \in { "chat", "base_balance" }

\* The identity's window on the route has room for one more request.
UnderLimit(ip, endpoint) ==
  LET k == <<ip, endpoint>>
  IN \/ k \notin DOMAIN storage
     \/ storage[k].expiry <= now
     \/ storage[k].count < DecoratedLimit(endpoint).amount

\* The request comes from an identity that is not blocked and is under the
\* route's limit.
Admissible == 
  /\ ~BlockedNow(response'.ip)
  /\ UnderLimit(response'.ip, MatchRoute(request'))

Violations(lg) == Cardinality({ i \in 1..Len(lg) : lg[i] = "VIOLATION" })
Ran(tr, stage) == \E i \in 1..Len(tr) : tr[i] = stage
HandlerRan(tr) == Ran(tr, "chat") \/ Ran(tr, "base_balance")

\* The answer is 401 with the code, one violation was recorded for the
\* identity and the view was not called.
RejectedWith(code) ==
  /\ response'.resp.status = 401
  /\ response'.resp.code = code
  /\ Violations(response'.logged) = 1
  /\ violation_counts'[response'.ip] = EffectiveCount(response'.ip) + 1
  /\ ~HandlerRan(response'.trace)

\* C7 as stated: under enforcement a request to a protected route without
\* the key header is answered 401 MISSING_KEY, records one violation and
\* does not reach the view.
C7_MissingKey ==
  [][ (ActStep /\ env.REQUIRE_API_KEY /\ Protected(request')
         /\ request'.api_key = None)
        => RejectedWith("MISSING_KEY") ]_vars

\* C7, amended: the same for a request of an identity that is not blocked
\* and is under the route's rate limit.
C7_MissingKeyAdmissible ==
  [][ (ActStep /\ env.REQUIRE_API_KEY /\ Protected(request')
         /\ request'.api_key = None /\ Admissible)
        => RejectedWith("MISSING_KEY") ]_vars

C7_Witness ==
  /\ request.path = BalancePath
  /\ request.api_key = None
  /\ response.resp.code = "MISSING_KEY"
  /\ Violations(response.logged) = 1
  /\ violation_counts[ClientA] = 2

\* C8: under enforcement a request to a protected route whose key header is
\* present and differs from the secret, whatever its length and content, is
\* answered 401 INVALID_KEY, records one violation and does not reach the
\* view.  Stated here for the most favourable case: a header value that is
\* not empty, from an identity that is not blocked and under the route's
\* limit.
C8_InvalidKey ==
  [][ (ActStep /\ env.REQUIRE_API_KEY /\ Protected(request')
         /\ request'.api_key \notin { None, << >> }
         /\ request'.api_key # env.B0B_API_KEY
         /\ Admissible)
        => RejectedWith("INVALID_KEY") ]_vars

\* A chat request with the correct key and a JSON body whose message is not
\* empty once sanitised, the collaborator's own key being configured.
GoodChat ==
  /\ ActStep /\ env.REQUIRE_API_KEY /\ ~Falsy(env.CLAUDE_API_KEY)
  /\ MatchRoute(request') = "chat"
  /\ request'.api_key = env.B0B_API_KEY
  /\ request'.body.kind = "json" /\ "message" \in request'.body.keys
  /\ sanitize_input(request'.body.message, MAX_MESSAGE_LENGTH) # << >>
  /\ Admissible

\* The request reached the external collaborator and no violation was
\* recorded for its identity.
PassedThrough ==
  /\ Ran(response'.trace, "external")
  /\ Violations(response'.logged) = 0
  /\ violation_counts'[response'.ip] = EffectiveCount(response'.ip)

\* C9 as stated: a chat request with the correct key from an identity that
\* is not blocked and under the limit reaches the external collaborator,
\* and no violation is recorded for the identity.
C9_CorrectKeyPasses == [][ GoodChat => PassedThrough ]_vars

\* C9, amended: the same for a request that names no model or an allowed one.
C9_CorrectKeyAllowedModel ==
  [][ (GoodChat /\ ("model" \in request'.body.keys
                      => request'.body.model \in allowed_models))
        => PassedThrough ]_vars

C9_Witness ==
  /\ request.path = ChatPath
  /\ request.api_key = ApiSecret
  /\ request.body = GoodMessage
  /\ response.resp.status = 200
  /\ Ran(response.trace, "external")
  /\ violation_counts[ClientA] = 2

WindowFull(ip, endpoint) ==
  LET k == <<ip, endpoint>>
  IN /\ k \in DOMAIN storage
     /\ storage[k].expiry > now
     /\ storage[k].count >= LimitOf(endpoint).amount

C6_NoLostUpdate ==
  (\A t \in Threads : threads[t].pc = "idle") =>
    \A ip \in Identities :
      /\ violation_counts[ip] = calls[ip]
      /\ calls[ip] >= BLOCK_THRESHOLD => ip \in DOMAIN blocked_ips

(***************************************************************************)
(* Properties of every response (SpecAny).                                 *)
(***************************************************************************)
\* C10: every response the application sends, whichever branch of the
\* pipeline built it (block, honeypot, rate limit, credential rejection,
\* routing error, the 500 handler, a view), carries every defensive header.
C10_HeadersOnEveryResponse ==
  response.resp.status # 0 => SecurityHeaders \subseteq response.resp.headers

\* The response to the request whose key made the comparison raise.
C10_Witness ==
  /\ request.api_key = NonAsciiKey
  /\ response.resp.status = 500
  /\ response.resp.error = "Internal server error"
  /\ response.resp.headers = SecurityHeaders

(***************************************************************************)
(* Properties of the audit log (SpecLog).                                  *)
(***************************************************************************)
\* The last n elements of a sequence, or all of it when it is shorter.
LastN(seq, n) ==
  SubSeq(seq, Len(seq) - (IF n < Len(seq) THEN n ELSE Len(seq)) + 1, Len(seq))

Rank(stage) ==
  CASE stage = "is_ip_blocked"   -> 1
    [] stage = "honeypot"        -> 2
    [] stage = "limiter"         -> 3
    [] stage = "require_api_key" -> 4
    [] OTHER                     -> 5

InOrder(tr) == \A i, j \in 1..Len(tr) : i < j => Rank(tr[i]) <= Rank(tr[j])

\* C12: the stages of every request run in the order blocklist gate,
\* honeypot detector, rate limiter, credential validator, route handler; a
\* honeypot request uses no rate-limit budget; and a request to a protected
\* route that is over the limit is answered 429 with no credential check
\* and no MISSING_KEY or INVALID_KEY violation.
C12_StageOrder ==
  [][ ActStep =>
        /\ InOrder(response'.trace)
        /\ Lower(request'.path) \in HONEYPOT_PATHS => storage' = storage
        /\ (Protected(request') /\ ~BlockedNow(response'.ip)
              /\ ~UnderLimit(response'.ip, MatchRoute(request')))
             => /\ response'.resp.status = 429
                /\ ~Ran(response'.trace, "require_api_key")
                /\ response'.resp.code \notin { "MISSING_KEY", "INVALID_KEY" } ]_vars

(***************************************************************************)
(* Properties of several identities on one route (SpecGlobal).             *)
(***************************************************************************)
\* The requests of an identity to a route that were admitted within the
\* identity's current window.
AdmittedInWindow(ip, endpoint) ==
  LET k == <<ip, endpoint>>
  IN IF k \in DOMAIN storage /\ storage[k].expiry > now
     THEN IF storage[k].count < LimitOf(endpoint).amount
          THEN storage[k].count ELSE LimitOf(endpoint).amount
     ELSE 0

RECURSIVE TotalAdmitted(_, _)
TotalAdmitted(ips, endpoint) ==
  IF ips = {} THEN 0
  ELSE LET ip == CHOOSE x \in ips : TRUE
       IN AdmittedInWindow(ip, endpoint) + TotalAdmitted(ips \ { ip }, endpoint)

\* C13: the requests to a route admitted within a window, summed over all
\* identities, stay under a global ceiling that does not grow with the number
\* of identities, so under the sum of the identities' own ceilings; once the
\* global ceiling is reached a request of a fresh identity is rejected.
C13_GlobalCeiling ==
  TotalAdmitted(Identities, "root") < Cardinality(Identities) * RATE_LIMIT_DEFAULT.amount

(***************************************************************************)
(* Properties of the recovery of the rate limit (SpecRate).                *)
(***************************************************************************)
\* The window length W of the route has fully elapsed since the identity's
\* latest request to it (last_request keeps only requests younger than W).
WindowElapsed(ip, endpoint) == <<ip, endpoint>> \notin DOMAIN last_request

\* C14: a request to a route made when the route's window length has fully
\* elapsed since the identity's latest request to it is not rate-limited,
\* however many requests the identity made before.
C14_RecoversAfterWindow ==
  [][ (ActStep /\ MatchRoute(request') \notin { "404", "405" }
         /\ WindowElapsed(response'.ip, MatchRoute(request')))
        => /\ response'.resp.status # 429
           /\ response'.resp.code # "RATE_LIMITED"
           /\ Violations(response'.logged) = 0 ]_vars

\* The client was rate-limited on the chat route (no request went to the
\* other route), waited for the window to elapse, and its chat request is
\* answered by the view in a new window.
C14_Witness ==
  /\ request.path = ChatPath
  /\ response.resp.status = 200
  /\ violation_counts[ClientA] >= 1
  /\ now = MinuteLen
  /\ <<ClientA, "root">> \notin DOMAIN storage
  /\ <<ClientA, "chat">> \in DOMAIN storage
  /\ storage[<<ClientA, "chat">>] = [count |-> 1, expiry |-> now + MinuteLen]

(***************************************************************************)
(* Properties of repeated rate-limit rejections (SpecRate).                *)
(***************************************************************************)
\* C15: a request answered 429 records exactly one violation for its
\* identity; an identity whose count has reached the threshold that way is
\* blocked; and a request of a blocked identity is answered 403 IP_BLOCKED,
\* not 429.
C15_RejectionsBlock ==
  [][ ActStep =>
        LET ip == response'.ip
        IN /\ response'.resp.status = 429 =>
                /\ Violations(response'.logged) = 1
                /\ violation_counts'[ip] = violation_counts[ip] + 1
                /\ violation_counts'[ip] >= BLOCK_THRESHOLD
                     => (ip \in DOMAIN blocked_ips' /\ now < blocked_ips'[ip])
           /\ BlockedNow(ip) =>
                /\ response'.resp.status = 403
                /\ response'.resp.code = "IP_BLOCKED" ]_vars

(***************************************************************************)
(* Properties of the disabled credential check (SpecOpen).                 *)
(***************************************************************************)
\* The request carries a body its view accepts as it is.
PlainBody(req) == req.body \in { GoodMessage, GoodBalance }

\* C16: with enforcement disabled, the credential validator hands every
\* request on a guarded route to the view, whatever key it carries, and
\* leaves the counts, the blocklist and the audit log as they were: the view
\* runs, the answer is no 401, and a request whose view has nothing to
\* object to records no violation and appends nothing beyond the
\* checkpoint's REQUEST entry.
C16_DisabledPassesAll ==
  [][ (ActStep /\ ~env.REQUIRE_API_KEY /\ Protected(request')) =>
        /\ require_api_key(World, now, request', env) = Continue(World)
        /\ Admissible =>
             /\ HandlerRan(response'.trace)
             /\ response'.resp.status # 401
             /\ response'.resp.code \notin { "MISSING_KEY", "INVALID_KEY" }
             /\ PlainBody(request') =>
                  /\ response'.resp.status = 200
                  /\ response'.logged = <<"REQUEST">>
                  /\ violation_counts'[response'.ip] = EffectiveCount(response'.ip) ]_vars

\* A request with a wrong key has been answered by the chat view, with
\* nothing recorded.
C16_Witness ==
  /\ ~env.REQUIRE_API_KEY
  /\ request.path = ChatPath
  /\ request.api_key = WrongKey
  /\ request.body = GoodMessage
  /\ response.resp.status = 200
  /\ Ran(response.trace, "chat")
  /\ response.logged = <<"REQUEST">>
  /\ violation_counts[ClientA] = 0

(***************************************************************************)
(* Properties of sanitize_input (SpecSanitize).                            *)
(***************************************************************************)
\* The text holds a markup tag: "<", the start of a tag name, and a ">"
\* further on.
HasTag(s) ==
  \E i \in 1..Len(s) :
    /\ s[i] = "<"
    /\ i < Len(s) /\ IsTagStart(s[i + 1])
    /\ \E j \in (i + 1)..Len(s) : s[j] = ">"

\* C17: whatever value sanitize_input is given, a string or not, and whatever
\* maximum length, what it returns holds no markup tag and is no longer than
\* the maximum.
C17_SanitizedAndBounded ==
  call.fn = "sanitize_input" =>
    /\ ~HasTag(call.cleaned)
    /\ call.max_length # 0 => Len(call.cleaned) <= call.max_length

(***************************************************************************)
(* Properties of get_client_ip (SpecIp).                                   *)
(***************************************************************************)
\* C18: get_client_ip returns the first entry of the forwarding chain when
\* the header is present, otherwise the peer address, otherwise the
\* sentinel 0.0.0.0; and what it returns is never the empty string.
C18_IdentityNeverEmpty ==
  call.fn = "get_client_ip" =>
    /\ call.forwarded # << >> => call.ip = Strip(SplitFirst(call.forwarded))
    /\ (call.forwarded = << >> /\ call.remote_addr # << >>) => call.ip = call.remote_addr
    /\ (call.forwarded = << >> /\ call.remote_addr = << >>) => call.ip = Sentinel
    /\ call.ip # << >>

(***************************************************************************)
(* Properties of the answers to faults (SpecFault).                        *)
(***************************************************************************)
\* The fixed messages of the program's answers to a fault (lines 359, 371,
\* 499).
GenericMessages ==
  { "Internal error", "Internal server error", "No text response from Claude" }

\* C19: the body of the answer to a fault raised in a view or in the gateway
\* carries one of the fixed generic messages, and never the text of the
\* exception.
C19_GenericFaultBody ==
  response.resp.status = 500 =>
    /\ response.resp.error \in GenericMessages
    /\ response.resp.error # ClaudeKeyMissingText

(***************************************************************************)
(* Properties of oversize bodies (SpecAny).                                *)
(***************************************************************************)
\* C20: a request whose body is longer than MAX_REQUEST_SIZE, from an
\* identity that is not blocked and is under the route's limit, is answered
\* 413 PAYLOAD_TOO_LARGE without its view being called, and exactly one
\* violation is recorded for its identity.
C20_OversizeRejected ==
  [][ (ActStep /\ request'.body.kind = "oversize" /\ Admissible) =>
        /\ response'.resp.status = 413
        /\ response'.resp.code = "PAYLOAD_TOO_LARGE"
        /\ ~HandlerRan(response'.trace)
        /\ Violations(response'.logged) = 1
        /\ violation_counts'[response'.ip] = EffectiveCount(response'.ip) + 1 ]_vars

(***************************************************************************)
(* Properties of the diagnostics route (SpecStats).                        *)
(***************************************************************************)
\* C21: a request to the diagnostics route without the internal key or with
\* a wrong one, from an identity that is not blocked and is under the
\* route's limit, is answered 401 with a code and records one violation for
\* its identity.
C21_StatsRejectionRecorded ==
  [][ (ActStep /\ MatchRoute(request') = "security_stats" /\ Admissible
         /\ request'.internal_key # InternalSecret) =>
        /\ response'.resp.status = 401
        /\ response'.resp.code # ""
        /\ Violations(response'.logged) = 1
        /\ violation_counts'[response'.ip] = EffectiveCount(response'.ip) + 1 ]_vars

\* The requests of an identity to a route that the limiter let through
\* since the identity's current window on the route began.
LetThroughInWindow(ip, endpoint) ==
  LET k == <<ip, endpoint>>
  IN IF k \in DOMAIN storage /\ storage[k].expiry > now /\ k \in DOMAIN admitted
     THEN Cardinality({ i \in 1..Len(admitted[k]) :
                          admitted[k][i] >= storage[k].expiry - PerOf(endpoint) })
     ELSE 0

\* C24: the diagnostics route is throttled with the strict ceiling, the one
\* of the balance route: within one window no identity is let through to it
\* more often than the strict maximum.
C24_StatsStrictCeiling ==
  \A ip \in Identities :
    LetThroughInWindow(ip, "security_stats") <= RATE_LIMIT_STRICT.amount

(***************************************************************************)
(* Properties of the separation of identities and routes (SpecFrame).      *)
(***************************************************************************)
\* The blockedUntil entries of every identity but ip.
BlocksOfOthers(b, ip) == [x \in (DOMAIN b) \ { ip } |-> b[x]]

\* C22: a request changes the violation count, the blockedUntil and the rate
\* windows of no identity but its own, and of its own rate windows only the
\* one of the route it goes to.
C22_OwnStateOnly ==
  [][ ActStep =>
        LET ip == response'.ip
            e  == MatchRoute(request')
        IN /\ \A other \in Identities \ { ip } :
                /\ violation_counts'[other] = violation_counts[other]
                /\ WindowsOf(storage', other) = WindowsOf(storage, other)
           /\ BlocksOfOthers(blocked_ips', ip) = BlocksOfOthers(blocked_ips, ip)
           /\ \A k \in DOMAIN storage :
                k # <<ip, e>> => (k \in DOMAIN storage' /\ storage'[k] = storage[k])
           /\ \A k \in DOMAIN storage' : k \notin DOMAIN storage => k = <<ip, e>> ]_vars

\* ClientB's chat request was counted and recorded while ClientA, blocked,
\* holds windows on both routes.
C22_Witness ==
  /\ response.ip = ClientB
  /\ request.path = ChatPath
  /\ violation_counts[ClientB] = 1
  /\ ClientA \in DOMAIN blocked_ips
  /\ ClientB \notin DOMAIN blocked_ips
  /\ violation_counts[ClientA] = BLOCK_THRESHOLD
  /\ <<ClientA, "root">> \in DOMAIN storage
  /\ <<ClientA, "chat">> \in DOMAIN storage
  /\ <<ClientB, "chat">> \in DOMAIN storage
  /\ <<ClientB, "root">> \notin DOMAIN storage

(***************************************************************************)
(* Properties of the life of the violation count (SpecCred).               *)
(***************************************************************************)
\* C23: the count of an identity goes down only in a request of that
\* identity whose is_ip_blocked check finds its blockedUntil elapsed (the
\* count restarts from 0 there); the passing of time leaves it as it was
\* and a request that succeeds does not lower it.
C23_CountNeverDecays ==
  [][ \A ip \in Identities :
        /\ violation_counts'[ip] < violation_counts[ip] =>
             /\ ActStep
             /\ response'.ip = ip
             /\ ip \in DOMAIN blocked_ips /\ now >= blocked_ips[ip]
             /\ Ran(response'.trace, "is_ip_blocked")
             /\ violation_counts'[ip] <= 1
        /\ ~ActStep => violation_counts'[ip] = violation_counts[ip]
        /\ (ActStep /\ response'.resp.status = 200 /\ NotElapsed(ip))
             => violation_counts'[ip] >= violation_counts[ip] ]_vars

\* The count stands one below the threshold after time has passed and a
\* chat request has succeeded: the violations were recorded in an earlier
\* window of the chat route (the request that succeeded is the first of its
\* window, and the balance route has had no request for a window's length).
C23_Witness ==
  /\ now = MaxTime
  /\ violation_counts[ClientA] = BLOCK_THRESHOLD - 1
  /\ ClientA \notin DOMAIN blocked_ips
  /\ request.path = ChatPath
  /\ response.resp.status = 200
  /\ <<ClientA, "chat">> \in DOMAIN storage
  /\ storage[<<ClientA, "chat">>] = [count |-> 1, expiry |-> now + MinuteLen]
  /\ <<ClientA, "base_balance">> \notin DOMAIN storage

(***************************************************************************)
(* Properties of record_violation alone (SpecLedger).                      *)
(***************************************************************************)
AuditEntry(t, event_type, ip, details, count) ==
  [timestamp |-> t, event |-> event_type, ip |-> ip,
   details |-> details, violation_count |-> count]

C27_ChecksAfterExpiryReturn ==
  \A t \in Threads :
    (threads[t].pc = "done" /\ threads[t].tmp = 1) => threads[t].ret = "False"

(***************************************************************************)
(* Properties of the ledger under concurrency (SpecMixed).                 *)
(***************************************************************************)
\* C28: whenever no handler is inside record_violation or is_ip_blocked, an
\* identity has a blockedUntil entry if and only if its count is at least
\* the threshold.
C28_BlockedIffAtThreshold ==
  (\A t \in Threads : threads[t].pc = "idle") =>
    \A ip \in Identities :
      ip \in DOMAIN blocked_ips <=> violation_counts[ip] >= BLOCK_THRESHOLD

(***************************************************************************)
(* Properties of violations after an expired block (SpecGate).             *)
(***************************************************************************)
\* The identity's blockedUntil has elapsed and no check has observed it yet.
ExpiredUnobserved(ip) == ip \in DOMAIN blocked_ips /\ now >= blocked_ips[ip]

\* C29: a request that records a violation for an identity whose block has
\* expired leaves the count at 1 and the identity unblocked: the expiry is
\* observed, and the count reset, before the violation is recorded.
C29_FreshCountAfterExpiry ==
  [][ (ActStep /\ ExpiredUnobserved(response'.ip)
         /\ Violations(response'.logged) = 1) =>
        /\ violation_counts'[response'.ip] = 1
        /\ response'.ip \notin DOMAIN blocked_ips' ]_vars

(***************************************************************************)
(* Properties of the credential checks without a secret (SpecUnset).       *)
(***************************************************************************)
\* C30 as stated: with enforcement on and no protected-route secret, every
\* request to a protected route is answered 401, and with no internal
\* secret the diagnostics route hands its data to no request.
C30_FailClosed ==
  [][ ActStep =>
        /\ (env.REQUIRE_API_KEY /\ Falsy(env.B0B_API_KEY) /\ Protected(request'))
             => response'.resp.status = 401
        /\ (Falsy(env.INTERNAL_API_KEY) /\ MatchRoute(request') = "security_stats")
             => ~Ran(response'.trace, "stats_data") ]_vars

\* C30, amended: with enforcement on and no protected-route secret, no
\* request to a protected route reaches its view, whatever key it carries:
\* it is answered 401 MISSING_KEY or INVALID_KEY when its identity is not
\* blocked and under the route's limit, and 403 or 429 otherwise.  With no
\* internal secret the diagnostics route hands its data to no request, an
\* empty or absent internal key included: the answer is 401 when the
\* identity is not blocked and under the limit, and 403 or 429 otherwise.
C30_FailClosedAdmissible ==
  [][ ActStep =>
        /\ (env.REQUIRE_API_KEY /\ Falsy(env.B0B_API_KEY) /\ Protected(request')) =>
             /\ ~HandlerRan(response'.trace)
             /\ response'.resp.status \in { 401, 403, 429 }
             /\ Admissible =>
                  /\ response'.resp.status = 401
                  /\ response'.resp.code \in { "MISSING_KEY", "INVALID_KEY" }
        /\ (Falsy(env.INTERNAL_API_KEY) /\ MatchRoute(request') = "security_stats") =>
             /\ ~Ran(response'.trace, "stats_data")
             /\ response'.resp.status \in { 401, 403, 429 }
             /\ Admissible => response'.resp.status = 401 ]_vars

\* The diagnostics route has answered 401 to a request with an empty
\* internal key while no internal secret is configured, after a rejection on
\* a protected route was recorded.
C30_Witness ==
  /\ Falsy(env.INTERNAL_API_KEY) /\ Falsy(env.B0B_API_KEY)
  /\ request.path = StatsPath
  /\ request.internal_key = << >>
  /\ response.resp.status = 401
  /\ Ran(response.trace, "security_stats")
  /\ violation_counts[ClientA] >= 1

=============================================================================
